---- MODULE Spec2Model ----
(***************************************************************************)
(* A model of github.com/catnovelapi/builder: the shared Client             *)
(* configuration (client.go), the Request built from it and dispatched by   *)
(* newResponse / newDoRequest (response.go), and the Response accessors     *)
(* (GetByte, String, ...).                                                  *)
(*                                                                          *)
(* Strings that the code takes apart (URLs, paths, query strings) are       *)
(* sequences of one-character strings; opaque texts (header values, bodies, *)
(* error messages) are plain strings.  An error value is a sequence of      *)
(* message parts, NilErr being Go's nil error.                              *)
(***************************************************************************)
EXTENDS Integers, Sequences, FiniteSets, TLC

VARIABLES
    client,    \* the *Client every request shares
    request,   \* the *Request of the call in progress
    pc,        \* where that call stands: idle, built, parsed, Dispatching, Succeeded, returned
    i,         \* newDoRequest's loop counter
    err,       \* newDoRequest's err variable (the last transport error)
    attempts,  \* number of httpClientRaw.Do calls of this dispatch
    engine,    \* what newDoRequest returned
    response,  \* the *Response object newDoRequest allocated
    ret,       \* what the dispatch (Get, Post, ...) gave its caller
    logged,    \* call sites reported to the logger during this call
    jar,       \* httpClientRaw.Jar: the <<url, cookie>> pairs handed to it
    nacc,      \* accessor calls the caller made on the returned Response
    wire,      \* what the transport did in this dispatch: failures, and the reply if any
    call,      \* what this call was made with: the Client and the jar as R() found them, what
               \* the request was given, the path dispatched, what Json and parseRequestBody returned
    thr        \* per thread: the access to the Client it is in the middle of

vars == <<client, request, pc, i, err, attempts, engine, response, ret, logged, jar, nacc, wire, call, thr>>

----------------------------------------------------------------------------
(* Bounds of the model *)

MaxRetry == 3
MaxAccess == 1
MaxCookies == 1

(* client.go:69 *)
defaultRetryCount == 3

Threads == {"t1", "t2"}

Methods == {"GET", "HEAD", "POST"}
MethodGet == "GET"

BaseURLArgs == {<<>>, <<"h">>, <<"h", "/", "/">>}
PathArgs == {<<>>, <<"p">>, <<"/", "p">>, <<"%">>}
HdrKeys == {"User-Agent"}
HdrVals == {"ua0", "ua1"}
QKeys == {<<"k">>}
QVals == {<<"/">>}
CookieArgs == {"c"}
BodyArgs ==
    {[kind |-> "string", val |-> <<"b">>],
     [kind |-> "string", val |-> <<"{", "a", ":", "1", "}">>],
     [kind |-> "bytes", val |-> <<"b">>],
     [kind |-> "map", val |-> (<<"a">> :> <<"1">>)],
     [kind |-> "int", val |-> <<>>]}
ContentTypeArgs == {"application/x-www-form-urlencoded"}
ResultFuncs == {"nil", "cooked", "empty", "err"}
TransportErrs == {<<"e1">>, <<"e2">>}
Statuses == {200, 404, 500}
Bodies == {"", "raw"}
Accessors == {"GetByte", "String", "Json", "Gjson", "Html", "StringGbk"}

\* what a request is given on top of what R() seeded it with
ReqQKeys == {<<"j">>, <<"k">>}
ReqQVals == {<<"1">>}
BuildMethods == {"GET", "POST"}
BuildPathArgs == {<<>>, <<"p">>, <<"p", "?">>, <<"p", "?", "x">>}

\* one exchange looked at closely: the cookies, the body, the answer decoded
ExchangePathArgs == {<<>>, <<"p">>}
ExchangeBodyArgs == {[kind |-> "string", val |-> <<"b">>]}
ExchangeBodies == {"raw", "{}"}
Destinations == {"ptr", "value", "nil"}

\* parseRequestBody on its own
FormKeys == {<<"f">>, <<"g">>}
FormVals == {<<"1">>}
ParseContentTypeArgs == {"application/x-www-form-urlencoded", "application/json"}

----------------------------------------------------------------------------
(* Errors *)

NilErr == <<>>
errEmptyTarget == <<"request Error: baseUrl and path are empty">>
errBaseUrlEmpty == <<"request Error: baseUrl is empty">>
errInvalidEscape == <<"invalid URL escape">>
errBadMethod == <<"net/http: invalid method">>
errResultFunc == <<"result func failed">>
errUnsupportedBody == <<"unsupported 'Body' type/value">>
errInvalidTarget == <<"DecodeJson: the destination must be a pointer">>
errEOF == <<"EOF">>
errSyntax == <<"invalid character">>

\* fmt.Errorf("request Error: %s", err.Error())
wrapErr(e) == <<"request Error">> \o e

----------------------------------------------------------------------------
(* Strings *)

HasPrefix_never(s, c) == FALSE

HasPrefix(s, c) == Len(s) > 0 /\ s[1] = c

RECURSIVE TrimRight(_, _)
TrimRight(s, c) ==
    IF Len(s) > 0 /\ s[Len(s)] = c THEN TrimRight(SubSeq(s, 1, Len(s) - 1), c) ELSE s

Contains(s, c) == \E j \in 1..Len(s) : s[j] = c

IndexByte(s, c) ==
    IF Contains(s, c) THEN CHOOSE j \in 1..Len(s) : s[j] = c /\ \A m \in 1..(j - 1) : s[m] # c
    ELSE 0

\* url.QueryEscape on one character
escapeChar(c) ==
    CASE c = "/" -> <<"%", "2", "F">>
      [] c = "&" -> <<"%", "2", "6">>
      [] c = "=" -> <<"%", "3", "D">>
      [] c = "?" -> <<"%", "3", "F">>
      [] c = "%" -> <<"%", "2", "5">>
      [] c = " " -> <<"+">>
      [] OTHER -> <<c>>

RECURSIVE QueryEscape(_)
QueryEscape(s) == IF s = <<>> THEN <<>> ELSE escapeChar(Head(s)) \o QueryEscape(Tail(s))

----------------------------------------------------------------------------
(* URLs: net/url as the code uses it *)

EmptyURL == [isNil |-> FALSE, Path |-> <<>>, ForceQuery |-> FALSE, RawQuery |-> <<>>]
NilURL == [isNil |-> TRUE, Path |-> <<>>, ForceQuery |-> FALSE, RawQuery |-> <<>>]

\* url.Parse: the text up to the first '?' is checked for escapes, the rest is the raw query
urlParse(s) ==
    LET q == IndexByte(s, "?")
        base == IF q = 0 THEN s ELSE SubSeq(s, 1, q - 1)
        rq == IF q = 0 THEN <<>> ELSE SubSeq(s, q + 1, Len(s))
    IN  IF Contains(base, "%")
        THEN [err |-> errInvalidEscape, url |-> NilURL]
        ELSE [err |-> NilErr,
              url |-> [isNil |-> FALSE, Path |-> base,
                       ForceQuery |-> (q # 0 /\ rq = <<>>), RawQuery |-> rq]]

\* (*url.URL).String
URLString(u) ==
    u.Path \o (IF u.ForceQuery \/ u.RawQuery # <<>> THEN <<"?">> \o u.RawQuery ELSE <<>>)

----------------------------------------------------------------------------
(* Maps: a Go map or sync.Map is a function on the keys it holds *)

EmptyMap == <<>>

Store_keepOld(m, k, v) == IF k \in DOMAIN m THEN m ELSE (k :> v) @@ m

\* Store of sync.Map, m[k] = v of a map
Store(m, k, v) == (k :> v) @@ m

----------------------------------------------------------------------------
(* Client configuration, client.go *)

SetRetryCount_noGuard(c, count) == [c EXCEPT !.RetryCount = count]

\* Client.SetRetryCount
SetRetryCount(c, count) ==
    IF count <= 0 THEN c ELSE [c EXCEPT !.RetryCount = count]

\* Client.SetBaseURL
SetBaseURL(c, baseUrl) == [c EXCEPT !.baseUrl = TrimRight(baseUrl, "/")]

\* Client.SetHeader
SetHeader(c, key, value) == [c EXCEPT !.Header = Store(@, key, value)]

\* Client.SetQueryParam
SetQueryParam(c, key, value) == [c EXCEPT !.QueryParam = Store(@, key, value)]

\* Client.SetCookie
SetCookie(c, cookie) == [c EXCEPT !.Cookies = Append(@, cookie)]

\* Client.SetDebug
SetDebug(c) == [c EXCEPT !.Debug = TRUE]

\* Client.SetResultFunc
SetResultFunc(c, f) == [c EXCEPT !.setResultFunc = f]

\* NewClient
NewClient ==
    SetHeader(
        SetRetryCount(
            [baseUrl |-> <<>>, Header |-> EmptyMap, QueryParam |-> EmptyMap,
             Cookies |-> <<>>, Debug |-> FALSE, RetryCount |-> 0,
             setResultFunc |-> "nil"],
            defaultRetryCount),
        "User-Agent", "ua0")

\* the function handed to SetResultFunc, applied to the body text
applyResultFunc(f, v) ==
    CASE f = "cooked" -> [out |-> "cooked", err |-> NilErr]
      [] f = "empty" -> [out |-> "", err |-> NilErr]
      [] f = "err" -> [out |-> "", err |-> errResultFunc]
      [] OTHER -> [out |-> v, err |-> NilErr]

----------------------------------------------------------------------------
(* Request, request.go *)

NilBody == [kind |-> "nil", val |-> <<>>]
NilBuf == [isNil |-> TRUE, data |-> <<>>]
NilNewRequest == [isNil |-> TRUE, Method |-> "", URL |-> <<>>, Header |-> EmptyMap, Body |-> <<>>]

NoRequest ==
    [Method |-> "", URL |-> NilURL, Body |-> NilBody, bodyBuf |-> NilBuf, bodyBytes |-> NilBuf,
     Header |-> EmptyMap, QueryParam |-> EmptyMap, FormData |-> EmptyMap,
     Cookies |-> <<>>, NewRequest |-> NilNewRequest]

\* Request.SetHeaders over Request.SetHeader
reqSetHeaders(r, headers) ==
    [r EXCEPT !.Header = [k \in DOMAIN headers \cup DOMAIN @ |->
                             IF k \in DOMAIN headers THEN headers[k] ELSE @[k]]]

\* Request.SetQueryParams over Request.SetQueryParam (values are strings: %v leaves them as they are)
reqSetQueryParams(r, query) ==
    [r EXCEPT !.QueryParam = [k \in DOMAIN query \cup DOMAIN @ |->
                                 IF k \in DOMAIN query THEN query[k] ELSE @[k]]]

\* Request.SetHeader
reqSetHeader(r, key, value) == [r EXCEPT !.Header = Store(@, key, value)]

\* Request.SetQueryParam (the value is a string: %v leaves it as it is)
reqSetQueryParam(r, key, value) == [r EXCEPT !.QueryParam = Store(@, key, value)]

\* Request.SetFormData
SetFormData(r, key, value) == [r EXCEPT !.FormData = Store(@, key, value)]

\* Request.SetCookie
reqSetCookie(r, cookie) == [r EXCEPT !.Cookies = Append(@, cookie)]

\* Request.SetHeaderContentType
SetHeaderContentType(r, contentType) == reqSetHeader(r, "Content-Type", contentType)

\* Request.SetBody
reqSetBody(r, v) == [r EXCEPT !.Body = v]

\* Request.GetRequestHeader: entries with an empty key or value are left out
GetRequestHeader(r) ==
    [k \in {x \in DOMAIN r.Header : x # "" /\ r.Header[x] # ""} |-> r.Header[k]]

\* Request.GetHeaderContentType
GetHeaderContentType(r) ==
    IF "Content-Type" \in DOMAIN GetRequestHeader(r) THEN GetRequestHeader(r)["Content-Type"] ELSE ""

Orders(S) == {f \in [1..Cardinality(S) -> S] : \A a, b \in 1..Cardinality(S) : a # b => f[a] # f[b]}

RECURSIVE joinParts(_, _, _)
joinParts(m, order, n) ==
    IF n > Len(order) THEN <<>>
    ELSE (IF n > 1 THEN <<"&">> ELSE <<>>)
         \o QueryEscape(order[n]) \o <<"=">> \o QueryEscape(m[order[n]])
         \o joinParts(m, order, n + 1)

\* Request.GetQueryParamsEncode: sync.Map.Range visits the keys in no fixed order,
\* so every order of the keys is a possible result
GetQueryParamsEncode(r) == {joinParts(r.QueryParam, o, 1) : o \in Orders(DOMAIN r.QueryParam)}

\* Request.GetFormDataEncode: the same loop over FormData
GetFormDataEncode(r) == {joinParts(r.FormData, o, 1) : o \in Orders(DOMAIN r.FormData)}

\* Client.R: the cookie copy writes cookies[i] into a slice of length 0
R(c) ==
    IF Len(c.Cookies) > 0
    THEN [panicked |-> TRUE, req |-> NoRequest]
    ELSE [panicked |-> FALSE,
          req |-> reqSetQueryParams(
                      reqSetHeaders([NoRequest EXCEPT !.URL = EmptyURL], c.Header),
                      c.QueryParam)]

----------------------------------------------------------------------------
(* Assembly, response.go *)

formContentType == "application/x-www-form-urlencoded"
jsonContentType == "application/json"
plainTextType == "text/plain; charset=utf-8"

\* the characters that make the structure of a JSON text
jsonMarks == {"{", "}", ":", ","}

\* gjson.Valid, on the body texts the model sends: the object of no or of one member
gjsonValid(s) ==
    \/ s = <<"{", "}">>
    \/ /\ Len(s) = 5
       /\ s[1] = "{" /\ s[3] = ":" /\ s[5] = "}"
       /\ s[2] \notin jsonMarks /\ s[4] \notin jsonMarks

\* Request.jsonToMap: the flat key/value pairs of a JSON object text
jsonToMap(s) == IF Len(s) = 5 THEN (<<s[2]>> :> <<s[4]>>) ELSE EmptyMap

\* Request.mapToJson: the JSON object text of a map of at most one entry
mapToJson(m) ==
    IF DOMAIN m = {} THEN <<"{", "}">>
    ELSE LET k == CHOOSE x \in DOMAIN m : TRUE
         IN  <<"{">> \o k \o <<":">> \o m[k] \o <<"}">>

newParseUrl_noEmptyCheck(r, baseURL, path) ==
    LET p == IF path # <<>> /\ ~HasPrefix(path, "/") THEN <<"/">> \o path ELSE path
        parsed == urlParse(baseURL \o p)
    IN  [err |-> parsed.err,
         req |-> [r EXCEPT !.URL = parsed.url],
         logs |-> IF parsed.err # NilErr THEN {"newParseUrl"} ELSE {}]

\* Request.newParseUrl
newParseUrl(r, baseURL, path) ==
    IF baseURL = <<>> /\ path = <<>>
    THEN [err |-> errEmptyTarget, req |-> r, logs |-> {"newParseUrl"}]
    ELSE LET p == IF path # <<>> /\ ~HasPrefix(path, "/") THEN <<"/">> \o path ELSE path
             parsed == urlParse(baseURL \o p)
         IN  [err |-> parsed.err,
              req |-> [r EXCEPT !.URL = parsed.url],
              logs |-> IF parsed.err # NilErr THEN {"newParseUrl"} ELSE {}]

\* Request.setBody
setBody(r) ==
    LET contentType == GetHeaderContentType(r)
    IN  CASE r.Body.kind = "string" ->
               IF contentType = formContentType
               THEN (IF gjsonValid(r.Body.val) THEN reqSetQueryParams(r, jsonToMap(r.Body.val)) ELSE r)
               ELSE [r EXCEPT !.bodyBuf = [isNil |-> FALSE, data |-> r.Body.val]]
          [] r.Body.kind = "map" ->
               LET b == mapToJson(r.Body.val)
               IN  IF contentType = formContentType
                   THEN reqSetQueryParams(r, jsonToMap(b))
                   ELSE [r EXCEPT !.bodyBuf = [isNil |-> FALSE, data |-> b]]
          [] OTHER -> r    \* neither a struct nor a pointer: nothing is staged

\* http.NewRequestWithContext: fails on a method that is no token or a URL that does not parse
httpNewRequest(method, u, header, buf) ==
    IF method \notin Methods THEN [err |-> errBadMethod, req |-> NilNewRequest]
    ELSE IF urlParse(u).err # NilErr THEN [err |-> urlParse(u).err, req |-> NilNewRequest]
    ELSE [err |-> NilErr,
          req |-> [isNil |-> FALSE, Method |-> method, URL |-> u, Header |-> header,
                   Body |-> buf.data]]

\* Request.newRequestWithContext, for one order enc of the encoded query parameters
newRequestWithContext(r, enc, debug) ==
    LET r1 == IF enc = <<>> THEN r
              ELSE IF r.Method = MethodGet
                   THEN [r EXCEPT !.URL.RawQuery =
                            (IF @ # <<>> THEN @ \o <<"&">> ELSE @) \o enc]
                   ELSE [r EXCEPT !.bodyBuf.data = @ \o enc]
        made == httpNewRequest(r1.Method, URLString(r1.URL), GetRequestHeader(r1), r1.bodyBuf)
    IN  [err |-> made.err,
         req |-> [r1 EXCEPT !.NewRequest = made.req],
         logs |-> (IF made.err # NilErr THEN {"http.NewRequestWithContext"} ELSE {})
                  \cup (IF debug THEN {"request debug"} ELSE {})]

jarSetCookies_unresolved(j, u, cookies) ==
    j \cup {<<URLString(EmptyURL), cookies[n]>> : n \in 1..Len(cookies)}

----------------------------------------------------------------------------
(* Body negotiation, util.go *)

\* IsStringEmpty, on the content types of the model (none is made of blanks)
IsStringEmpty(str) == str = ""

\* DetectContentType: http.DetectContentType takes the bytes of the model for text
DetectContentType(body) ==
    CASE body.kind = "map" -> jsonContentType
      [] body.kind = "string" -> plainTextType
      [] body.kind = "bytes" -> plainTextType
      [] OTHER -> plainTextType

\* IsJSONType and IsXMLType, on the content types of the model
IsJSONType(ct) == ct = jsonContentType
IsXMLType(ct) == FALSE

\* handleRequestBody
handleRequestBody(r) ==
    LET r0 == [r EXCEPT !.bodyBuf = NilBuf]
        r1 == CASE r0.Body.kind \in {"bytes", "string"} ->
                     [r0 EXCEPT !.bodyBytes = [isNil |-> FALSE, data |-> r0.Body.val]]
                [] r0.Body.kind = "map" /\ IsJSONType(GetHeaderContentType(r0)) ->
                     [r0 EXCEPT !.bodyBytes = [isNil |-> FALSE, data |-> mapToJson(r0.Body.val)],
                                !.bodyBuf = [isNil |-> FALSE, data |-> mapToJson(r0.Body.val)]]
                [] OTHER -> r0
    IN  IF r1.bodyBytes.isNil /\ r1.bodyBuf.isNil
        THEN [err |-> errUnsupportedBody, req |-> r1]
        ELSE IF ~r1.bodyBytes.isNil /\ r1.bodyBuf.isNil
             THEN [err |-> NilErr, req |-> [r1 EXCEPT !.bodyBuf = r1.bodyBytes]]
             ELSE [err |-> NilErr, req |-> r1]

parseRequestBody_bodyFirst(r, enc1, enc2) ==
    IF r.Body # NilBody
    THEN handleRequestBody(
             IF IsStringEmpty(GetHeaderContentType(r))
             THEN SetHeaderContentType(r, DetectContentType(r.Body))
             ELSE r)
    ELSE IF enc1 # <<>>
         THEN [err |-> NilErr,
               req |-> SetHeaderContentType(
                           [r EXCEPT !.bodyBuf = [isNil |-> FALSE, data |-> enc2]],
                           formContentType)]
         ELSE [err |-> NilErr, req |-> r]

\* parseRequestBody, enc1 and enc2 what its two calls of GetFormDataEncode return
parseRequestBody(r, enc1, enc2) ==
    IF enc1 # <<>>
    THEN [err |-> NilErr,
          req |-> SetHeaderContentType(
                      [r EXCEPT !.bodyBuf = [isNil |-> FALSE, data |-> enc2]],
                      formContentType)]
    ELSE IF r.Body # NilBody
         THEN handleRequestBody(
                  IF IsStringEmpty(GetHeaderContentType(r))
                  THEN SetHeaderContentType(r, DetectContentType(r.Body))
                  ELSE r)
         ELSE [err |-> NilErr, req |-> r]

\* Request.newParseUrl of response.go:527, which also writes the encoded query
\* parameters, enc, into the query of the URL it parsed
newParseUrlEncode(r, baseURL, path, enc) ==
    IF baseURL = <<>> /\ path = <<>>
    THEN [err |-> errBaseUrlEmpty, req |-> r, logs |-> {"newParseUrl"}]
    ELSE LET p == IF baseURL # <<>> /\ path # <<>> /\ path[1] # "/"
                  THEN <<"/">> \o path ELSE path
             parsed == urlParse(baseURL \o p)
         IN  IF parsed.err # NilErr
             THEN [err |-> parsed.err, req |-> r, logs |-> {}]
             ELSE [err |-> NilErr,
                   req |-> [r EXCEPT !.URL =
                               [parsed.url EXCEPT !.RawQuery =
                                   IF @ = <<>> THEN enc ELSE @ \o <<"&">> \o enc]],
                   logs |-> {}]

----------------------------------------------------------------------------
(* The cookie jar *)

\* Jar.SetCookies(request.URL, request.Cookies)
jarSetCookies(j, u, cookies) == j \cup {<<URLString(u), cookies[n]>> : n \in 1..Len(cookies)}

----------------------------------------------------------------------------
(* Response and its accessors *)

NilStream == [data |-> "", closed |-> FALSE, reads |-> 0, closes |-> 0]
NilResponse == [isNil |-> TRUE, StatusCode |-> 0, Result |-> "", Body |-> NilStream, got |-> <<>>]

\* &Response{RequestSource: request, ResponseRaw: raw, Request: request.NewRequest}
NewResponse(status, body) ==
    [isNil |-> FALSE, StatusCode |-> status, Result |-> "",
     Body |-> [data |-> body, closed |-> FALSE, reads |-> 0, closes |-> 0],
     got |-> <<>>]

\* io.ReadAll(response.ResponseRaw.Body): a closed body gives an error and no bytes
ReadAll(b) ==
    [ok |-> ~b.closed,
     bytes |-> IF b.closed THEN "" ELSE b.data,
     body |-> [b EXCEPT !.reads = @ + 1, !.data = ""]]

\* Body.Close()
Close(b) == [b EXCEPT !.closed = TRUE, !.closes = @ + 1]

\* Response.GetByte.  The field got keeps, in order, what each call returned.
GetByte(resp) ==
    IF resp.Result # ""
    THEN [val |-> resp.Result, resp |-> [resp EXCEPT !.got = Append(@, resp.Result)]]
    ELSE LET rd == ReadAll(resp.Body)
             out == IF rd.ok THEN rd.bytes ELSE ""
         IN  [val |-> out,
              resp |-> [resp EXCEPT !.Body = Close(rd.body), !.got = Append(@, out)]]

\* Response.String
String(resp) == GetByte(resp)

\* json.NewDecoder(strings.NewReader(text)).Decode(v), v a pointer
jsonDecode(text) ==
    IF text = "{}" THEN NilErr ELSE IF text = "" THEN errEOF ELSE errSyntax

\* Response.Json(v).  reflect.TypeOf(nil) is the nil Type: Kind() on it panics.
Json(resp, dst) ==
    IF dst = "nil"
    THEN [kind |-> "panic", err |-> NilErr, resp |-> resp]
    ELSE IF dst # "ptr"
         THEN [kind |-> "return", err |-> errInvalidTarget, resp |-> resp]
         ELSE LET s == String(resp)
              IN  [kind |-> "return", err |-> jsonDecode(s.val), resp |-> s.resp]

\* newFormatResponseLogText(response): GetHeader, GetStatusCode and String on the response
newFormatResponseLogText(resp) ==
    IF resp.isNil
    THEN [panicked |-> TRUE, resp |-> resp]
    ELSE [panicked |-> FALSE, resp |-> String(resp).resp]

\* the deferred function of newResponse
deferredDebug(debug, resp) ==
    IF debug THEN newFormatResponseLogText(resp) ELSE [panicked |-> FALSE, resp |-> resp]

loopCond_offByOne(n, retryCount) == n <= retryCount

\* newDoRequest's loop condition
loopCond(n, retryCount) == n < retryCount

transportFailed_on5xx(o) == ~o.ok \/ o.status >= 500

\* newDoRequest: err != nil after httpClientRaw.Do, the one case that goes round again
transportFailed(o) == ~o.ok

defaultRetry_absent(c) == c

\* newResponse: if GetClientRetryNumber() == 0 { SetRetryCount(1) }
defaultRetry(c) == IF c.RetryCount = 0 THEN SetRetryCount(c, 1) ELSE c

\* newResponse from the return of newDoRequest on: the result function and response.Result
resultTail(f, resp0) ==
    IF f # "nil"
    THEN LET s1 == String(resp0)
             hook == applyResultFunc(f, s1.val)
             resp1 == [s1.resp EXCEPT !.Result = hook.out]
         IN  IF hook.err # NilErr \/ resp1.Result = ""
             THEN LET s2 == String(resp1)
                  IN  [returnsNil |-> TRUE, err |-> hook.err,
                       resp |-> [s2.resp EXCEPT !.Result = s2.val],
                       logs |-> {"setResultFunc"}]
             ELSE [returnsNil |-> FALSE, err |-> NilErr, resp |-> resp1, logs |-> {}]
    ELSE LET s1 == String(resp0)
         IN  [returnsNil |-> FALSE, err |-> NilErr,
              resp |-> [s1.resp EXCEPT !.Result = s1.val], logs |-> {}]

\* what the caller of newResponse gets, the deferred function having run
Returned(debug, respLocal, returnsNil, e) ==
    LET d == deferredDebug(debug, respLocal)
    IN  [ret |-> IF d.panicked
                 THEN [kind |-> "panic", resp |-> "nil", err |-> NilErr]
                 ELSE [kind |-> "return",
                       resp |-> IF returnsNil THEN "nil" ELSE "ptr",
                       err |-> e],
         resp |-> d.resp,
         logs |-> IF debug /\ ~d.panicked THEN {"response debug"} ELSE {}]

----------------------------------------------------------------------------
(* State *)

NoEngine == [done |-> FALSE, resp |-> "nil", err |-> NilErr]
NoRet == [kind |-> "none", resp |-> "nil", err |-> NilErr]
NoSent == [Method |-> "", URL |-> <<>>, Header |-> EmptyMap, Body |-> <<>>]
NoWire ==
    [seen |-> FALSE, status |-> 0, body |-> "", at |-> 0, fails |-> 0,
     first |-> NoSent, last |-> NoSent]
NoJson == [dst |-> "none", kind |-> "none", err |-> NilErr, before |-> 0]
NoParsed == [done |-> FALSE, err |-> NilErr]
NoCall ==
    [seed |-> NewClient, path |-> <<>>, resolveErr |-> NilErr,
     hdr |-> EmptyMap, qp |-> EmptyMap, jar |-> {}, json |-> NoJson,
     parsed |-> NoParsed]
NoAccess == [op |-> "none", obj |-> "none", mode |-> "none", arg |-> <<>>]

\* What httpClientRaw.Do can do with the request: answer it, having read its body; fail
\* before it wrote anything (no connection); fail having written it (the connection
\* breaks, the answer times out), the body read.
Answers(statuses, bodies) ==
    [ok : {TRUE}, e : {NilErr}, status : statuses, body : bodies, consumed : {TRUE}]
EarlyFailures(errs) ==
    [ok : {FALSE}, e : errs, status : {0}, body : {""}, consumed : {FALSE}]
LateFailures(errs) ==
    [ok : {FALSE}, e : errs, status : {0}, body : {""}, consumed : {TRUE}]

Outcomes == Answers(Statuses, Bodies) \cup EarlyFailures(TransportErrs)

Quiet == \A t \in Threads : thr[t] = NoAccess

Init ==
    /\ client = NewClient
    /\ request = NoRequest
    /\ pc = "idle"
    /\ i = 0
    /\ err = NilErr
    /\ attempts = 0
    /\ engine = NoEngine
    /\ response = NilResponse
    /\ ret = NoRet
    /\ logged = {}
    /\ jar = {}
    /\ nacc = 0
    /\ wire = NoWire
    /\ call = NoCall
    /\ thr = [t \in Threads |-> NoAccess]

----------------------------------------------------------------------------
(* Configuring the client between calls *)

Configure(c) ==
    /\ pc = "idle"
    /\ Quiet
    /\ client' = c
    /\ UNCHANGED <<request, pc, i, err, attempts, engine, response, ret, logged, jar, nacc, wire, call, thr>>

CallSetBaseURL(u) == Configure(SetBaseURL(client, u))

CallSetRetryCount(n) == Configure(SetRetryCount(client, n))

CallSetDebug == Configure(SetDebug(client))

CallSetResultFunc(f) == Configure(SetResultFunc(client, f))

CallSetQueryParam(k, v) == Configure(SetQueryParam(client, k, v))

CallSetCookie(c) == Len(client.Cookies) < MaxCookies /\ Configure(SetCookie(client, c))

\* the caller writes the exported field: client.RetryCount = 0
AssignRetryCount == client.RetryCount # 0 /\ Configure([client EXCEPT !.RetryCount = 0])

----------------------------------------------------------------------------
(* One call: R(), the request setters, the dispatch, the accessors *)

CallR ==
    /\ pc = "idle"
    /\ Quiet
    /\ LET made == R(client)
       IN  IF made.panicked
           THEN /\ pc' = "returned"
                /\ ret' = [kind |-> "panic", resp |-> "nil", err |-> NilErr]
                /\ UNCHANGED request
           ELSE /\ pc' = "built"
                /\ request' = made.req
                /\ UNCHANGED ret
    /\ call' = [call EXCEPT !.seed = client, !.jar = jar]
    /\ UNCHANGED <<client, i, err, attempts, engine, response, logged, jar, nacc, wire, thr>>

CallSetHeaderContentType(ct) ==
    /\ pc = "built"
    /\ Quiet
    /\ "Content-Type" \notin DOMAIN request.Header
    /\ request' = SetHeaderContentType(request, ct)
    /\ call' = [call EXCEPT !.hdr = ("Content-Type" :> ct) @@ @]
    /\ UNCHANGED <<client, pc, i, err, attempts, engine, response, ret, logged, jar, nacc, wire, thr>>

CallReqSetHeader(k, v) ==
    /\ pc = "built"
    /\ Quiet
    /\ request' = reqSetHeader(request, k, v)
    /\ call' = [call EXCEPT !.hdr = (k :> v) @@ @]
    /\ UNCHANGED <<client, pc, i, err, attempts, engine, response, ret, logged, jar, nacc, wire, thr>>

CallReqSetQueryParam(k, v) ==
    /\ pc = "built"
    /\ Quiet
    /\ request' = reqSetQueryParam(request, k, v)
    /\ call' = [call EXCEPT !.qp = (k :> v) @@ @]
    /\ UNCHANGED <<client, pc, i, err, attempts, engine, response, ret, logged, jar, nacc, wire, thr>>

CallReqSetCookie(c) ==
    /\ pc = "built"
    /\ Quiet
    /\ Len(request.Cookies) < MaxCookies
    /\ request' = reqSetCookie(request, c)
    /\ UNCHANGED <<client, pc, i, err, attempts, engine, response, ret, logged, jar, nacc, wire, call, thr>>

CallSetFormData(k, v) ==
    /\ pc = "built"
    /\ Quiet
    /\ request' = SetFormData(request, k, v)
    /\ UNCHANGED <<client, pc, i, err, attempts, engine, response, ret, logged, jar, nacc, wire, call, thr>>

CallSetBody(v) ==
    /\ pc = "built"
    /\ Quiet
    /\ request.Body = NilBody
    /\ request' = reqSetBody(request, v)
    /\ UNCHANGED <<client, pc, i, err, attempts, engine, response, ret, logged, jar, nacc, wire, call, thr>>

\* parseRequestBody(request), called on the request as it stands
CallParseRequestBody ==
    /\ pc = "built"
    /\ Quiet
    /\ \E enc1, enc2 \in GetFormDataEncode(request) :
          LET out == parseRequestBody(request, enc1, enc2)
          IN  /\ request' = out.req
              /\ call' = [call EXCEPT !.parsed = [done |-> TRUE, err |-> out.err]]
    /\ pc' = "parsed"
    /\ UNCHANGED <<client, i, err, attempts, engine, response, ret, logged, jar, nacc, wire, thr>>

\* newResponse up to the call of newDoRequest
Dispatch(method, path) ==
    /\ pc = "built"
    /\ Quiet
    /\ LET r0 == [request EXCEPT !.Method = method]
           pu == newParseUrl(r0, client.baseUrl, path)
       IN  IF pu.err # NilErr
           THEN LET out == Returned(client.Debug, NilResponse, TRUE, pu.err)
                IN  /\ request' = pu.req
                    /\ ret' = out.ret
                    /\ logged' = logged \cup pu.logs \cup out.logs
                    /\ pc' = "returned"
                    /\ UNCHANGED <<client, jar, i, err>>
           ELSE LET r1 == IF pu.req.bodyBuf.isNil
                          THEN [pu.req EXCEPT !.bodyBuf = [isNil |-> FALSE, data |-> <<>>]]
                          ELSE pu.req
                    r2 == IF r1.Body # NilBody THEN setBody(r1) ELSE r1
                IN  /\ jar' = jarSetCookies(jar, r2.URL, r2.Cookies)
                    /\ \E enc \in GetQueryParamsEncode(r2) :
                         LET nr == newRequestWithContext(r2, enc, client.Debug)
                         IN  IF nr.err # NilErr
                             THEN LET out == Returned(client.Debug, NilResponse, TRUE, nr.err)
                                  IN  /\ request' = nr.req
                                      /\ ret' = out.ret
                                      /\ logged' = logged \cup nr.logs \cup out.logs
                                      /\ pc' = "returned"
                                      /\ UNCHANGED <<client, i, err>>
                             ELSE /\ request' = nr.req
                                  /\ client' = defaultRetry(client)
                                  /\ logged' = logged \cup nr.logs
                                  /\ pc' = "Dispatching"
                                  /\ i' = 0
                                  /\ err' = NilErr
                                  /\ UNCHANGED ret
    /\ call' = [call EXCEPT !.path = path,
                            !.resolveErr = newParseUrl(request, client.baseUrl, path).err]
    /\ UNCHANGED <<attempts, engine, response, nacc, wire, thr>>

\* what httpClientRaw.Do(request.NewRequest) is given: the *http.Request, whose body
\* is a reader over request.bodyBuf
Presented(r) ==
    [Method |-> r.NewRequest.Method, URL |-> r.NewRequest.URL,
     Header |-> r.NewRequest.Header, Body |-> r.bodyBuf.data]

\* newResponse of response.go:573 up to the call of newDoRequest: the query parameters go
\* into the URL in newParseUrl, the body is negotiated by parseRequestBody
DispatchNegotiated(method, path) ==
    /\ pc = "built"
    /\ Quiet
    /\ \E enc \in GetQueryParamsEncode(request), enc1, enc2 \in GetFormDataEncode(request) :
          LET r0 == [request EXCEPT !.Method = method]
              pu == newParseUrlEncode(r0, client.baseUrl, path, enc)
              pb == parseRequestBody(pu.req, enc1, enc2)
              r2 == IF pb.req.bodyBuf.isNil
                    THEN [pb.req EXCEPT !.bodyBuf = [isNil |-> FALSE, data |-> <<>>]]
                    ELSE pb.req
              made == httpNewRequest(r2.Method, URLString(r2.URL), GetRequestHeader(r2), r2.bodyBuf)
              failed == IF pu.err # NilErr THEN [err |-> pu.err, req |-> pu.req, logs |-> pu.logs]
                        ELSE IF pb.err # NilErr
                        THEN [err |-> pb.err, req |-> pb.req, logs |-> {"parseRequestBody"}]
                        ELSE [err |-> made.err, req |-> r2,
                              logs |-> {"request debug"} \cup
                                       (IF made.err # NilErr THEN {"http.NewRequestWithContext"} ELSE {})]
          IN  /\ call' = [call EXCEPT !.path = path, !.resolveErr = pu.err]
              /\ IF failed.err # NilErr
                 THEN LET out == Returned(client.Debug, NilResponse, TRUE, failed.err)
                      IN  /\ request' = failed.req
                          /\ ret' = out.ret
                          /\ logged' = logged \cup failed.logs \cup out.logs
                          /\ pc' = "returned"
                          /\ UNCHANGED <<client, i, err>>
                 ELSE /\ request' = [r2 EXCEPT !.NewRequest = made.req]
                      /\ client' = defaultRetry(client)
                      /\ logged' = logged \cup failed.logs
                      /\ pc' = "Dispatching"
                      /\ i' = 0
                      /\ err' = NilErr
                      /\ UNCHANGED ret
    /\ UNCHANGED <<attempts, engine, response, jar, nacc, wire, thr>>

\* one pass of newDoRequest's loop: httpClientRaw.Do answers o
Attempt(o) ==
    /\ pc = "Dispatching"
    /\ loopCond(i, client.RetryCount)
    /\ attempts' = attempts + 1
    /\ LET w == [wire EXCEPT !.first = IF attempts = 0 THEN Presented(request) ELSE @,
                             !.last = Presented(request)]
       IN  wire' = IF o.ok
                   THEN [w EXCEPT !.seen = TRUE, !.status = o.status, !.body = o.body,
                                  !.at = attempts + 1]
                   ELSE [w EXCEPT !.fails = @ + 1]
    /\ request' = IF o.consumed THEN [request EXCEPT !.bodyBuf.data = <<>>] ELSE request
    /\ IF transportFailed(o)
       THEN /\ err' = o.e
            /\ i' = i + 1
            /\ logged' = logged \cup {"httpClientRaw.Do"}
            /\ UNCHANGED <<response, engine, pc>>
       ELSE /\ response' = NewResponse(o.status, o.body)
            /\ engine' = [done |-> TRUE, resp |-> "ptr", err |-> NilErr]
            /\ pc' = "Succeeded"
            /\ err' = NilErr    \* raw, err = Do(...): err is nil on this pass
            /\ UNCHANGED <<i, logged>>
    /\ UNCHANGED <<client, ret, jar, nacc, call, thr>>

\* the loop ends: newDoRequest returns nil and the wrapped err, newResponse returns it
Exhausted ==
    /\ pc = "Dispatching"
    /\ ~loopCond(i, client.RetryCount)
    /\ IF err = NilErr
       THEN /\ ret' = [kind |-> "panic", resp |-> "nil", err |-> NilErr]
            /\ UNCHANGED <<engine, logged>>
       ELSE LET out == Returned(client.Debug, NilResponse, TRUE, wrapErr(err))
            IN  /\ engine' = [done |-> TRUE, resp |-> "nil", err |-> wrapErr(err)]
                /\ ret' = out.ret
                /\ logged' = logged \cup {"newDoRequest"} \cup out.logs
    /\ pc' = "returned"
    /\ UNCHANGED <<client, request, i, err, attempts, response, jar, nacc, wire, call, thr>>

\* newDoRequest returned a Response: the rest of newResponse
Complete ==
    /\ pc = "Succeeded"
    /\ LET tail == resultTail(client.setResultFunc, response)
           out == Returned(client.Debug, tail.resp, tail.returnsNil, tail.err)
       IN  /\ response' = out.resp
           /\ ret' = out.ret
           /\ logged' = logged \cup tail.logs \cup out.logs
    /\ pc' = "returned"
    /\ UNCHANGED <<client, request, i, err, attempts, engine, jar, nacc, wire, call, thr>>

\* the caller reads the body of the Response it was given; each accessor goes through GetByte
Access(a) ==
    /\ pc = "returned"
    /\ ret.kind = "return"
    /\ ret.resp = "ptr"
    /\ nacc < MaxAccess
    /\ response' = GetByte(response).resp
    /\ nacc' = nacc + 1
    /\ UNCHANGED <<client, request, pc, i, err, attempts, engine, ret, logged, jar, wire, call, thr>>

\* the caller decodes the body of the Response it was given into dst
CallJson(dst) ==
    /\ pc = "returned"
    /\ ret.kind = "return"
    /\ ret.resp = "ptr"
    /\ nacc < MaxAccess
    /\ LET out == Json(response, dst)
       IN  /\ response' = out.resp
           /\ call' = [call EXCEPT !.json = [dst |-> dst, kind |-> out.kind, err |-> out.err,
                                             before |-> Len(response.got)]]
    /\ nacc' = nacc + 1
    /\ UNCHANGED <<client, request, pc, i, err, attempts, engine, ret, logged, jar, wire, thr>>

\* the caller drops the request and the response
Discard ==
    /\ pc \in {"built", "parsed", "returned"}
    /\ Quiet
    /\ pc' = "idle"
    /\ request' = NoRequest
    /\ i' = 0
    /\ err' = NilErr
    /\ attempts' = 0
    /\ engine' = NoEngine
    /\ response' = NilResponse
    /\ ret' = NoRet
    /\ logged' = {}
    /\ nacc' = 0
    /\ wire' = NoWire
    /\ call' = NoCall
    /\ UNCHANGED <<client, jar, thr>>

Next ==
    \/ \E u \in BaseURLArgs : CallSetBaseURL(u)
    \/ \E n \in -1..MaxRetry : CallSetRetryCount(n)
    \/ CallSetDebug
    \/ \E f \in ResultFuncs : CallSetResultFunc(f)
    \/ \E k \in QKeys, v \in QVals : CallSetQueryParam(k, v)
    \/ \E c \in CookieArgs : CallSetCookie(c)
    \/ AssignRetryCount
    \/ CallR
    \/ \E ct \in ContentTypeArgs : CallSetHeaderContentType(ct)
    \/ \E v \in BodyArgs : CallSetBody(v)
    \/ \E m \in Methods, p \in PathArgs : Dispatch(m, p)
    \/ \E o \in Outcomes : Attempt(o)
    \/ Exhausted
    \/ Complete
    \/ \E a \in Accessors : Access(a)
    \/ Discard

Spec == Init /\ [][Next]_vars

----------------------------------------------------------------------------
(* The request given its own headers and query parameters after R(), on URLs with *)
(* and without a query; the exchange is one call that is answered.                  *)

NextBuild ==
    \/ \E u \in BaseURLArgs : CallSetBaseURL(u)
    \/ \E k \in QKeys, v \in QVals : CallSetQueryParam(k, v)
    \/ CallR
    \/ \E k \in HdrKeys, v \in HdrVals : CallReqSetHeader(k, v)
    \/ \E k \in ReqQKeys, v \in ReqQVals : CallReqSetQueryParam(k, v)
    \/ \E m \in BuildMethods, p \in BuildPathArgs : Dispatch(m, p)
    \/ \E o \in Answers({200}, {"raw"}) : Attempt(o)
    \/ Complete
    \/ Discard

BuildSpec == Init /\ [][NextBuild]_vars

----------------------------------------------------------------------------
(* One exchange of the default Client: a request with cookies and a body, a        *)
(* transport that fails before or after it has written the request, the answer      *)
(* decoded with Json.                                                               *)

ExchangeOutcomes ==
    Answers({200}, ExchangeBodies) \cup EarlyFailures({<<"e1">>}) \cup LateFailures({<<"e1">>})

NextExchange ==
    \/ CallR
    \/ \E c \in CookieArgs : CallReqSetCookie(c)
    \/ \E v \in ExchangeBodyArgs : CallSetBody(v)
    \/ \E m \in BuildMethods, p \in ExchangePathArgs : Dispatch(m, p)
    \/ \E o \in ExchangeOutcomes : Attempt(o)
    \/ Exhausted
    \/ Complete
    \/ \E dst \in Destinations : CallJson(dst)
    \/ Discard

ExchangeSpec == Init /\ [][NextExchange]_vars

----------------------------------------------------------------------------
(* parseRequestBody applied to requests with and without form data, a body, a      *)
(* content type                                                                     *)

NextParse ==
    \/ CallR
    \/ \E k \in FormKeys, v \in FormVals : CallSetFormData(k, v)
    \/ \E v \in BodyArgs : CallSetBody(v)
    \/ \E ct \in ParseContentTypeArgs : CallSetHeaderContentType(ct)
    \/ CallParseRequestBody
    \/ Discard

ParseSpec == Init /\ [][NextParse]_vars

----------------------------------------------------------------------------
(* The dispatch of response.go:573, with the newParseUrl that writes the query and  *)
(* with parseRequestBody                                                            *)

NextNegotiated ==
    \/ \E u \in BaseURLArgs : CallSetBaseURL(u)
    \/ \E k \in QKeys, v \in QVals : CallSetQueryParam(k, v)
    \/ CallR
    \/ \E k \in FormKeys, v \in FormVals : CallSetFormData(k, v)
    \/ \E v \in BodyArgs : CallSetBody(v)
    \/ \E m \in BuildMethods, p \in BuildPathArgs : DispatchNegotiated(m, p)
    \/ \E o \in Answers({200}, {"raw"}) : Attempt(o)
    \/ Complete
    \/ Discard

NegotiatedSpec == Init /\ [][NextNegotiated]_vars

----------------------------------------------------------------------------
(* Threads sharing the Client.  A map or slice access is not one step of the *)
(* machine: a thread is inside it from Begin to End.  client.go takes no     *)
(* lock anywhere, so nothing guards a Begin.                                 *)

Crashed == \E t \in Threads : thr[t].op = "fatal"

\* two accesses to the same field of the Client, one of them a write
Conflict(a, b) == a.obj # "none" /\ a.obj = b.obj /\ (a.mode = "w" \/ b.mode = "w")

Enter(t, op, obj, mode, arg) ==
    /\ ~Crashed
    /\ thr[t] = NoAccess
    /\ thr' = [thr EXCEPT ![t] = [op |-> op, obj |-> obj, mode |-> mode, arg |-> arg]]

BeginSetHeader(t, k, v) ==
    /\ Enter(t, "SetHeader", "Header", "w", <<k, v>>)
    /\ UNCHANGED <<client, request, pc, i, err, attempts, engine, response, ret, logged, jar, nacc, wire, call>>

BeginSetQueryParam(t, k, v) ==
    /\ Enter(t, "SetQueryParam", "QueryParam", "w", <<k, v>>)
    /\ UNCHANGED <<client, request, pc, i, err, attempts, engine, response, ret, logged, jar, nacc, wire, call>>

BeginSetCookie(t, c) ==
    /\ Len(client.Cookies) < MaxCookies
    /\ Enter(t, "SetCookie", "Cookies", "w", <<c>>)
    /\ UNCHANGED <<client, request, pc, i, err, attempts, engine, response, ret, logged, jar, nacc, wire, call>>

BeginSetRetryCount(t, n) ==
    /\ Enter(t, "SetRetryCount", "RetryCount", "w", <<n>>)
    /\ UNCHANGED <<client, request, pc, i, err, attempts, engine, response, ret, logged, jar, nacc, wire, call>>

\* the write of the setter thread t is in takes effect
EndWrite(t) ==
    /\ ~Crashed
    /\ thr[t].mode = "w"
    /\ client' = CASE thr[t].op = "SetHeader" -> SetHeader(client, thr[t].arg[1], thr[t].arg[2])
                   [] thr[t].op = "SetQueryParam" -> SetQueryParam(client, thr[t].arg[1], thr[t].arg[2])
                   [] thr[t].op = "SetCookie" -> SetCookie(client, thr[t].arg[1])
                   [] OTHER -> SetRetryCount(client, thr[t].arg[1])
    /\ thr' = [thr EXCEPT ![t] = NoAccess]
    /\ UNCHANGED <<request, pc, i, err, attempts, engine, response, ret, logged, jar, nacc, wire, call>>

\* Client.R, entered: the new Request exists, the range over client.Cookies is next
BeginR(t) ==
    /\ pc = "idle"
    /\ Enter(t, "R", "Cookies", "r", <<>>)
    /\ pc' = "creating"
    /\ request' = [NoRequest EXCEPT !.URL = EmptyURL]
    /\ UNCHANGED <<client, i, err, attempts, engine, response, ret, logged, jar, nacc, wire, call>>

\* Client.R, one of its three reads of the Client: Cookies, then Header, then QueryParam
StepR(t) ==
    /\ ~Crashed
    /\ thr[t].op = "R"
    /\ CASE thr[t].obj = "Cookies" ->
              IF R(client).panicked
              THEN /\ thr' = [thr EXCEPT ![t] = NoAccess]
                   /\ pc' = "returned"
                   /\ ret' = [kind |-> "panic", resp |-> "nil", err |-> NilErr]
                   /\ UNCHANGED request
              ELSE /\ thr' = [thr EXCEPT ![t].obj = "Header"]
                   /\ UNCHANGED <<pc, ret, request>>
         [] thr[t].obj = "Header" ->
              /\ request' = reqSetHeaders(request, client.Header)
              /\ thr' = [thr EXCEPT ![t].obj = "QueryParam"]
              /\ UNCHANGED <<pc, ret>>
         [] OTHER ->
              /\ request' = reqSetQueryParams(request, client.QueryParam)
              /\ thr' = [thr EXCEPT ![t] = NoAccess]
              /\ pc' = "built"
              /\ UNCHANGED ret
    /\ UNCHANGED <<client, i, err, attempts, engine, response, logged, jar, nacc, wire, call>>

\* the Go runtime ends the program on a map access that overlaps a write of the map
Fatal(t) ==
    /\ ~Crashed
    /\ thr[t].obj \in {"Header", "QueryParam"}
    /\ \E u \in Threads \ {t} : Conflict(thr[t], thr[u])
    /\ thr' = [thr EXCEPT ![t].op = "fatal"]
    /\ UNCHANGED <<client, request, pc, i, err, attempts, engine, response, ret, logged, jar, nacc, wire, call>>

NextShared ==
    \/ \E t \in Threads, k \in HdrKeys, v \in HdrVals : BeginSetHeader(t, k, v)
    \/ \E t \in Threads, k \in QKeys, v \in QVals : BeginSetQueryParam(t, k, v)
    \/ \E t \in Threads, c \in CookieArgs : BeginSetCookie(t, c)
    \/ \E t \in Threads, n \in -1..MaxRetry : BeginSetRetryCount(t, n)
    \/ \E t \in Threads : EndWrite(t)
    \/ \E t \in Threads : BeginR(t)
    \/ \E t \in Threads : StepR(t)
    \/ \E t \in Threads : Fatal(t)
    \/ (~Crashed /\ Discard)

SharedSpec == Init /\ [][NextShared]_vars

----------------------------------------------------------------------------
(* Properties of the retry engine and of the dispatch *)

\* newResponse was entered and has come back to its caller
Dispatched == pc = "returned" /\ request.Method # ""

\* newResponse came back without a Response from newDoRequest
NoResponse == Dispatched /\ (~engine.done \/ engine.resp = "nil")

\* the result function is set and, on the body the transport delivered, gives an error
\* or the empty text
HookFailed ==
    /\ client.setResultFunc # "nil"
    /\ LET h == applyResultFunc(client.setResultFunc, wire.body)
       IN  h.err # NilErr \/ h.out = ""

\* C1: with RetryCount = N >= 1, when every call of httpClientRaw.Do fails, newDoRequest
\* makes exactly N calls, then returns an error, and no call follows: the count of calls
\* stays N for as long as the caller holds the result.
C1_Exhaustion ==
    /\ (pc \in {"Dispatching", "Succeeded"} \/ attempts > 0 => client.RetryCount >= 1)
    /\ (pc = "Dispatching" => attempts = i /\ i <= client.RetryCount)
    /\ ((engine.done /\ engine.resp = "nil") =>
            /\ pc = "returned"
            /\ wire.fails = attempts
            /\ attempts = client.RetryCount
            /\ err # NilErr
            /\ engine.err = wrapErr(err))
    /\ ((pc = "returned" /\ attempts > 0 /\ ~wire.seen) =>
            engine.done /\ engine.resp = "nil")

C1_Witness ==
    /\ engine.done
    /\ engine.resp = "nil"
    /\ client.RetryCount >= 2
    /\ attempts = client.RetryCount
    /\ pc = "returned"

\* C2: when httpClientRaw.Do fails k < N times and then answers, the dispatch returns the
\* Response with a nil error after k + 1 calls.
C2_RetryThenSuccess ==
    (Dispatched /\ wire.seen) =>
        /\ ret.kind = "return"
        /\ ret.resp = "ptr"
        /\ ret.err = NilErr
        /\ wire.fails < client.RetryCount
        /\ attempts = wire.fails + 1

\* C3: as soon as a call of httpClientRaw.Do is answered, whatever the status code,
\* newDoRequest has returned that answer with a nil error and makes no further call; the
\* calls before it are exactly the ones that failed in the transport.
C3_AnyResponseSucceeds ==
    /\ (pc # "idle" => i = wire.fails)
    /\ (wire.seen =>
            /\ pc \in {"Succeeded", "returned"}
            /\ engine = [done |-> TRUE, resp |-> "ptr", err |-> NilErr]
            /\ ~response.isNil
            /\ response.StatusCode = wire.status
            /\ (Len(response.got) > 0 => response.got[1] = wire.body)
            /\ attempts = wire.at
            /\ attempts = wire.fails + 1)

C3_Witness ==
    /\ wire.seen
    /\ wire.status = 500
    /\ wire.fails >= 1
    /\ pc = "returned"
    /\ nacc > 0

\* C4: when the attempts are exhausted the dispatch returns a nil Response and the error
\* that wraps the last transport error, and does not end in any other way.
C4_ExhaustionReturnsError ==
    (Dispatched /\ engine.done /\ engine.resp = "nil") =>
        /\ ret.kind = "return"
        /\ ret.resp = "nil"
        /\ err # NilErr
        /\ ret.err = wrapErr(err)

\* C5: a failure while the request is put together (no target, a URL that does not parse,
\* a body of a shape that is not supported) ends the dispatch before any call of
\* httpClientRaw.Do, and the error is returned to the caller.
C5_AssemblyErrorsAbort ==
    /\ ((Dispatched /\ ~engine.done /\ attempts = 0) =>
            /\ ret.kind = "return"
            /\ ret.resp = "nil"
            /\ ret.err # NilErr)
    /\ (request.Body.kind = "int" => attempts = 0)

\* C6: when the result function gives an error or the empty text, the dispatch still
\* returns a Response and a nil error, and the Response shows the body as delivered.
C6_HookFailureFallsBack ==
    (Dispatched /\ wire.seen /\ HookFailed) =>
        /\ ret.kind = "return"
        /\ ret.resp = "ptr"
        /\ ret.err = NilErr
        /\ response.Result = wire.body

\* C7: the body of a Response is read at most once and closed at most once, whatever
\* accessors are called and in whatever order, the empty body included.
C7_SingleReadSingleClose ==
    /\ response.Body.reads <= 1
    /\ response.Body.closes <= 1

\* C8: every call of GetByte or String on a Response returns what the first call returned.
C8_StableBody ==
    \A n \in 1..Len(response.got) : response.got[n] = response.got[1]

\* C9: a dispatch that fails returns its error to the caller, with Debug on or off: the
\* logging on the way out, the deferred "response debug" entry included, does not put
\* anything else in its place.
C9_LoggingKeepsError ==
    NoResponse =>
        /\ ret.kind = "return"
        /\ ret.resp = "nil"
        /\ ret.err \in {errEmptyTarget, errInvalidEscape, errBadMethod, wrapErr(err)}

\* C10: no two threads are at the same time inside accesses to the same field of the
\* Client when one of the accesses is a write: the setters exclude each other and R.
C10_MutatorsExcluded ==
    \A t, u \in Threads : t # u => ~Conflict(thr[t], thr[u])

----------------------------------------------------------------------------
(* Properties of the configuration, of URL resolution and of the body *)

\* newResponse has been entered for the request at hand
Started == pc # "idle" /\ request.Method # ""

\* the *http.Request was built: what it holds is what the transport is given
Assembled == Started /\ ~request.NewRequest.isNil

\* C11: from R() to the end of the call, the request-level operations (the request's
\* setters and the dispatch) leave the Client's headers, query parameters, cookies and
\* retry count as R() read them.
C11_RequestLeavesClient ==
    pc # "idle" =>
        /\ client.Header = call.seed.Header
        /\ client.QueryParam = call.seed.QueryParam
        /\ client.Cookies = call.seed.Cookies
        /\ client.RetryCount = call.seed.RetryCount

\* C12: a call of Client.SetRetryCount(n) changes nothing when n <= 0 and makes the retry
\* count n, and nothing else, when n > 0.
C12_SetRetryCount ==
    [][\A n \in -1..MaxRetry :
          CallSetRetryCount(n) =>
              client' = [client EXCEPT !.RetryCount = IF n <= 0 THEN @ ELSE n]]_vars

C12_Witness ==
    /\ client.RetryCount = 2
    /\ pc = "idle"
    /\ SetRetryCount(client, 0).RetryCount = 2

\* C13: a dispatch that starts with the Client's retry count at zero and gets as far as
\* the exchange calls httpClientRaw.Do exactly once, whether the call fails or is answered.
C13_ZeroRetryOneAttempt ==
    (Started /\ call.seed.RetryCount = 0) =>
        /\ (pc = "Dispatching" => attempts = i /\ (attempts = 0 => loopCond(i, client.RetryCount)))
        /\ attempts <= 1
        /\ (pc = "Succeeded" => attempts = 1)
        /\ (pc = "returned" /\ Assembled => attempts = 1)

C13_Witness ==
    /\ Started
    /\ call.seed.RetryCount = 0
    /\ pc = "returned"
    /\ attempts = 1
    /\ engine.done
    /\ engine.resp = "nil"

\* C14: the base URL is stored without trailing '/'; with a base URL and a path that are
\* not empty, newParseUrl hands url.Parse the base, a '/' when the path does not start
\* with one, and the path: that text is the URL resolved, or the one that failed to parse.
C14_UrlResolution ==
    /\ (client.baseUrl = <<>> \/ client.baseUrl[Len(client.baseUrl)] # "/")
    /\ ((Started /\ call.seed.baseUrl # <<>> /\ call.path # <<>>) =>
            LET target == call.seed.baseUrl
                          \o (IF call.path[1] = "/" THEN <<>> ELSE <<"/">>)
                          \o call.path
            IN  IF call.resolveErr = NilErr
                THEN ~request.URL.isNil /\ request.URL.Path = target
                ELSE /\ call.resolveErr = errInvalidEscape
                     /\ Contains(target, "%")
                     /\ attempts = 0)

C14_Witness ==
    /\ Started
    /\ call.seed.baseUrl = <<"h">>
    /\ call.path = <<"p">>
    /\ request.URL.Path = <<"h", "/", "p">>
    /\ attempts > 0

\* C15: with no base URL and an empty path, newParseUrl fails with the empty-target error
\* and leaves the URL of the request as R() made it; no *http.Request is built and
\* httpClientRaw.Do is never called; an error that reaches the caller is that error.
C15_EmptyTarget ==
    (Started /\ call.seed.baseUrl = <<>> /\ call.path = <<>>) =>
        /\ call.resolveErr = errEmptyTarget
        /\ request.URL = EmptyURL
        /\ request.NewRequest.isNil
        /\ pc = "returned"
        /\ attempts = 0
        /\ ~engine.done
        /\ "newParseUrl" \in logged
        /\ ret.resp = "nil"
        /\ (ret.kind = "return" => ret.err = errEmptyTarget)

C15_Witness ==
    /\ Started
    /\ call.seed.baseUrl = <<>>
    /\ call.path = <<>>
    /\ ret.kind = "return"
    /\ ret.err = errEmptyTarget

\* C16: a dispatch whose body is of no supported shape (an integer) fails: it ends without
\* a Response and without any call of httpClientRaw.Do.
C16_UnsupportedBodyFails ==
    (Started /\ request.Body.kind = "int") =>
        /\ pc = "returned"
        /\ attempts = 0
        /\ ~engine.done
        /\ ret.resp = "nil"

\* C17: with the form content type and a string body that is a JSON object, the payload
\* of the request sent is the form encoding of the members of the object and nothing else.
C17_FormBodyFlattened ==
    (/\ Assembled
     /\ request.Body.kind = "string"
     /\ Len(request.Body.val) = 5
     /\ request.Body.val[1] = "{"
     /\ GetHeaderContentType(request) = formContentType) =>
        request.NewRequest.Body =
            QueryEscape(<<request.Body.val[2]>>) \o <<"=">> \o QueryEscape(<<request.Body.val[4]>>)

\* C18: a string or []byte body with a content type other than the form one is the
\* payload of the request sent, byte for byte.
C18_VerbatimBody ==
    (/\ Assembled
     /\ request.Body.kind \in {"string", "bytes"}
     /\ GetHeaderContentType(request) # formContentType) =>
        request.NewRequest.Body = request.Body.val

\* C19: a map body sent without a content type of the caller's goes out with the
\* Content-Type application/json and the JSON text of the map as payload.
C19_MapBodyIsJson ==
    (/\ Assembled
     /\ request.Body.kind = "map"
     /\ GetHeaderContentType(request) # formContentType) =>
        /\ "Content-Type" \in DOMAIN request.NewRequest.Header
        /\ request.NewRequest.Header["Content-Type"] = jsonContentType
        /\ request.NewRequest.Body = <<"{", "a", ":", "1", "}">>

\* C20: after a dispatch with a body that returned a Response, the request sent has a
\* Content-Type header; one the caller set is the one it has.
C20_ContentTypeSet ==
    (/\ Assembled
     /\ request.Body # NilBody
     /\ ret.kind = "return"
     /\ ret.resp = "ptr") =>
        /\ "Content-Type" \in DOMAIN request.NewRequest.Header
        /\ ("Content-Type" \in DOMAIN request.Header =>
                request.NewRequest.Header["Content-Type"] = request.Header["Content-Type"])

----------------------------------------------------------------------------
(* Properties of the request as R() makes it and as the transport is given it *)

\* strings.HasSuffix
HasSuffix(s, suffix) ==
    Len(s) >= Len(suffix) /\ SubSeq(s, Len(s) - Len(suffix) + 1, Len(s)) = suffix

\* the values of the Client as R() read them, under the values the request was given
Merged(seeded, given) ==
    [k \in DOMAIN seeded \cup DOMAIN given |->
        IF k \in DOMAIN given THEN given[k] ELSE seeded[k]]

\* the text url.Parse is given for the call at hand
Target ==
    call.seed.baseUrl
    \o (IF call.path # <<>> /\ call.path[1] # "/" THEN <<"/">> ELSE <<>>)
    \o call.path

\* C21: the Request holds the Client's headers and query parameters as R() read them,
\* a key the request was given afterwards with the value of the request; the request
\* sent carries exactly these headers and these parameters.
C21_SeededThenOverridden ==
    /\ (pc = "built" =>
            /\ request.Header = Merged(call.seed.Header, call.hdr)
            /\ request.QueryParam = Merged(call.seed.QueryParam, call.qp))
    /\ (Assembled =>
            /\ request.NewRequest.Header = Merged(call.seed.Header, call.hdr)
            /\ LET q == Merged(call.seed.QueryParam, call.qp)
               IN  q # EmptyMap =>
                     \E o \in Orders(DOMAIN q) :
                        LET enc == joinParts(q, o, 1)
                        IN  IF request.Method = MethodGet
                            THEN \/ HasSuffix(request.NewRequest.URL, <<"?">> \o enc)
                                 \/ HasSuffix(request.NewRequest.URL, <<"&">> \o enc)
                            ELSE request.NewRequest.Body = enc)

C21_Witness ==
    /\ Assembled
    /\ attempts > 0
    /\ call.seed.Header = ("User-Agent" :> "ua0")
    /\ call.hdr = ("User-Agent" :> "ua1")
    /\ request.NewRequest.Header = ("User-Agent" :> "ua1")
    /\ call.seed.QueryParam = (<<"k">> :> <<"/">>)
    /\ call.qp = (<<"k">> :> <<"1">>)
    /\ request.NewRequest.URL = <<"h", "/", "p", "?", "x", "&", "k", "=", "1">>

\* C22: the encoding of the parameters of a request is one text: whenever it is taken of
\* the same mapping it is the same, whatever the order the keys went in.
C22_EncodingDeterministic ==
    Started => \A e1, e2 \in GetQueryParamsEncode(request) : e1 = e2

\* C23: for GET and for HEAD the encoded query parameters are at the end of the query of
\* the URL requested, after '?' or after '&', and the body of the request sent holds
\* nothing of them.
C23_GetHeadParamsInUrl ==
    (Assembled /\ request.Method \in {"GET", "HEAD"} /\ request.QueryParam # EmptyMap) =>
        /\ \E enc \in GetQueryParamsEncode(request) :
              \/ HasSuffix(request.NewRequest.URL, <<"?">> \o enc)
              \/ HasSuffix(request.NewRequest.URL, <<"&">> \o enc)
        /\ \A enc \in GetQueryParamsEncode(request) :
              ~HasSuffix(request.NewRequest.Body, enc)

\* C24: for a method other than GET and HEAD, a body of the caller's that is not sent as
\* a form is the whole payload: the text of a string or []byte body, the JSON text of a
\* map, with no encoded parameters after it or in its place.
C24_RicherBodyAlone ==
    (/\ Assembled
     /\ request.Method \notin {"GET", "HEAD"}
     /\ request.Body.kind \in {"string", "bytes", "map"}
     /\ GetHeaderContentType(request) # formContentType
     /\ request.QueryParam # EmptyMap) =>
        request.NewRequest.Body =
            IF request.Body.kind = "map" THEN mapToJson(request.Body.val) ELSE request.Body.val

\* C25: the cookies of the request are handed to the jar once, for the URL resolved: a
\* dispatch whose URL did not resolve hands the jar nothing, and from the resolution on,
\* so before the first call of httpClientRaw.Do and at every one, the jar holds them.
C25_CookiesBoundToResolved ==
    /\ (pc = "built" => jar = call.jar)
    /\ ((Started /\ call.resolveErr # NilErr) => jar = call.jar /\ attempts = 0)
    /\ ((Started /\ call.resolveErr = NilErr) =>
            jar = call.jar \cup {<<Target, request.Cookies[n]>> : n \in 1..Len(request.Cookies)})

C25_Witness ==
    /\ Started
    /\ call.resolveErr = NilErr
    /\ call.jar = {}
    /\ request.Cookies = <<"c">>
    /\ jar = {<<(<<"/", "p">>), "c">>}
    /\ attempts = 2

\* C26: Json(v) with v anything but a pointer, nil included, returns the invalid-target
\* error and reads nothing of the Response; the dispatch never returns a decoding error.
C26_JsonInvalidTarget ==
    /\ (call.json.dst \notin {"none", "ptr"} =>
            /\ call.json.kind = "return"
            /\ call.json.err = errInvalidTarget
            /\ Len(response.got) = call.json.before)
    /\ ret.err \notin {errEOF, errSyntax}

\* C27: R() on a Client that holds k >= 0 cookies returns a Request, and the Request has
\* k cookies, equal one by one to the Client's.
C27_RCopiesCookies ==
    (pc # "idle" /\ ~Started) =>
        /\ pc = "built"
        /\ ret.kind # "panic"
        /\ Len(request.Cookies) = Len(call.seed.Cookies)
        /\ \A n \in 1..Len(request.Cookies) : request.Cookies[n] = call.seed.Cookies[n]

\* C28: every call of httpClientRaw.Do of one dispatch is given what the first was
\* given: the same method, URL and headers, and the whole body.
C28_SameRequestEachAttempt ==
    attempts >= 1 => wire.last = wire.first

\* C29: parseRequestBody on a request with a form-data field stages the form encoding
\* of the form-data fields and nothing else, sets the Content-Type to the form one and
\* returns no error; the Body of the request is left as it was, whatever it is.
C29_FormDataAlone ==
    [][(pc = "built" /\ pc' = "parsed" /\ request.FormData # EmptyMap) =>
          /\ call'.parsed = [done |-> TRUE, err |-> NilErr]
          /\ ~request'.bodyBuf.isNil
          /\ request'.bodyBuf.data \in GetFormDataEncode(request)
          /\ GetHeaderContentType(request') = formContentType
          /\ request'.Body = request.Body
          /\ request'.bodyBytes = request.bodyBytes
          /\ request'.FormData = request.FormData]_vars

C29_Witness ==
    /\ pc = "parsed"
    /\ request.Body.kind = "int"
    /\ call.hdr = ("Content-Type" :> jsonContentType)
    /\ request.FormData = (<<"f">> :> <<"1">>) @@ (<<"g">> :> <<"1">>)
    /\ request.bodyBuf.data = <<"g", "=", "1", "&", "f", "=", "1">>
    /\ call.parsed.err = NilErr

\* the query that the path of the call at hand spells
QueryOf(path) ==
    IF Contains(path, "?") THEN SubSeq(path, IndexByte(path, "?") + 1, Len(path)) ELSE <<>>

\* C30: a request with no query parameter, neither of the Client nor of its own,
\* requests the URL that base URL and path spell: the query is the one of the path, with
\* no '&' after it and no '?' where there is none.
C30_NoParamsQueryUntouched ==
    (Assembled /\ call.seed.QueryParam = EmptyMap /\ call.qp = EmptyMap) =>
        /\ request.URL.RawQuery = QueryOf(call.path)
        /\ HasSuffix(request.NewRequest.URL, call.path)
        /\ Contains(request.NewRequest.URL, "?") = Contains(call.path, "?")

====
